---------------------------- MODULE Spec2Model ----------------------------
(* Model of the Superhero-Hub backend (src/unnamed/part_000): the hero    *)
(* cache `cachedHeroes`, the letter sweep that fills it, and the three    *)
(* request handlers /api/heroes, /api/superhero and /api/superhero/:id.   *)
(*                                                                        *)
(* Node runs every handler on one thread: a handler runs without          *)
(* interruption from one `await` on upstream I/O to the next.  Each       *)
(* action below is one such uninterrupted stretch of a handler.           *)
(*                                                                        *)
(* Strings are sequences of one-character strings, so that toLowerCase    *)
(* and includes are computed and not assumed.                             *)
EXTENDS Integers, Sequences, FiniteSets, TLC

(* ------------------------------ bounds -------------------------------- *)
\* Requests the server has in flight at the same time.  A slot is free
\* again as soon as its request is answered, so any number of requests is
\* served one after the other.
MaxInFlight == 2
\* Letters of the sweep; the code sweeps 'a'..'z', the model the first few.
NumLetters == 2
Slots == 1..MaxInFlight
Letters == 1..NumLetters

(* ------------------------------ strings ------------------------------- *)
\* `undefined`: a query parameter that is absent, a field that is missing.
Undefined == <<"undefined">>

\* String.prototype.toLowerCase on one character.
LowerChar(c) ==
  CASE c = "A" -> "a"
    [] c = "B" -> "b"
    [] c = "G" -> "g"
    [] OTHER -> c

\* String.prototype.toLowerCase.
ToLowerCase(s) == [i \in 1..Len(s) |-> LowerChar(s[i])]

\* String.prototype.includes: unanchored substring test.
Includes(s, t) ==
  \E i \in 0..(Len(s) - Len(t)) : SubSeq(s, i + 1, i + Len(t)) = t

\* JavaScript truthiness of a string-or-undefined value.
Truthy(s) == s # Undefined /\ s # <<>>

(* ------------------------------ records ------------------------------- *)
\* Heroes upstream can return: HeroA and HeroA2 share an id under
\* different names; HeroB has no alignment.  Every record carries a name
\* and a biography, as upstream's records do; `alignment` stands for
\* biography.alignment.
HeroA == [id |-> 1, name |-> <<"A", "b">>, alignment |-> <<"g">>]
HeroA2 == [id |-> 1, name |-> <<"B", "a">>, alignment |-> <<"B">>]
HeroB == [id |-> 2, name |-> <<"a", "B">>, alignment |-> Undefined]

HeroPool == {HeroA, HeroA2, HeroB}

HeroIds == {h.id : h \in HeroPool}

\* Results lists upstream can return for a letter: empty, one hero, one id
\* twice in one list, and lists that overlap each other.
ResultLists ==
  { <<>>, <<HeroA>>, <<HeroB>>, <<HeroA, HeroA2>>, <<HeroA2, HeroB>> }

\* Ids a client may ask /api/superhero/:id for (3 is unknown upstream).
QueryIds == {2, 3}

\* Values of the `alignment` query parameter of /api/heroes.
Alignments == {Undefined, <<"G">>}

\* Values of the `name` query parameter of /api/superhero.
Names == {Undefined, <<>>, <<"B">>}

\* Longest cache the query handlers are checked on by themselves.
MaxCatalog == 3

\* Heroes of those caches: alignments in both cases, empty and missing.
HeroC == [id |-> 3, name |-> <<"B", "a">>, alignment |-> <<"G">>]
HeroD == [id |-> 4, name |-> <<"G">>, alignment |-> <<>>]

QueryPool == {HeroA, HeroB, HeroC, HeroD}

\* Values of the query parameters the query handlers are checked on.
QueryAlignments == {Undefined, <<>>, <<"g">>, <<"G">>, <<"b">>}
QueryNames == {<<"B">>, <<"a", "b">>, <<"g">>, <<"b", "b">>}

RECURSIVE CachesUpTo(_)
\* The caches of at most n heroes of QueryPool, no id twice.
CachesUpTo(n) ==
  IF n = 0 THEN {<<>>}
  ELSE LET shorter == CachesUpTo(n - 1)
           longer == { Append(c, h) : c \in {d \in shorter : Len(d) = n - 1},
                                      h \in QueryPool }
       IN shorter \cup
          { c \in longer : \A i, j \in 1..Len(c) : c[i].id = c[j].id => i = j }

\* Outcomes of axios.get(.../search/<letter>): the call throws ("fail"),
\* answers without a results list ("noresults", the error envelope), or
\* answers with a results list.
LetterOutcomes ==
  { [kind |-> "fail", results |-> <<>>],
    [kind |-> "noresults", results |-> <<>>] }
  \cup { [kind |-> "results", results |-> r] : r \in ResultLists }

\* Outcomes of axios.get(.../<id>): the call throws, answers with no body,
\* answers with response "error", or answers with response "success".
IdOutcomes(id) ==
  { [kind |-> "fail", hero |-> <<>>],
    [kind |-> "nodata", hero |-> <<>>],
    [kind |-> "error", hero |-> <<>>] }
  \cup { [kind |-> "success", hero |-> <<h>>] : h \in {x \in HeroPool : x.id = id} }

\* A letter upstream has not been asked for yet.
NotAsked == [kind |-> "notasked", results |-> <<>>]

(* ------------------------------ responses ----------------------------- *)
NoResponse == [status |-> 0, heroes |-> <<>>, message |-> ""]

NoRequest == [kind |-> "none", arg |-> <<>>, id |-> 0]

\* What the server sent last: the request and its response.
Sent(request, response) == [req |-> request, res |-> response]
NothingSent == Sent(NoRequest, NoResponse)

\* res.json(x) and res.status(n).json({message}).
Json(heroes) == [status |-> 200, heroes |-> heroes, message |-> ""]
StatusJson(n, msg) == [status |-> n, heroes |-> <<>>, message |-> msg]

VARIABLES
  cachedHeroes,    \* the cache: a sequence of hero records
  apiKey,          \* TRUE iff process.env.SUPERHERO_API_KEY is set
  pc,              \* per slot: "idle", "awaitLetter" or "awaitId"
  req,             \* per slot: the request being served
  letter,          \* per slot: the letter its sweep is fetching (0: none)
  lastSent,        \* the response sent last, with its request
  sweepsStarted,   \* history: calls of initializeHeroCache (0, 1, 2+)
  sweepsCompleted, \* history: such calls that returned (0, 1, 2+)
  fetchCount,      \* history: per letter, calls of axios.get (0, 1, 2+)
  dropped,         \* history: a merge dropped a hero unlike the cached one
  deterministic,   \* upstream answers a letter the same way every time
  answered         \* if deterministic: per letter, the outcome upstream gave

vars == <<cachedHeroes, apiKey, pc, req, letter, lastSent, sweepsStarted,
          sweepsCompleted, fetchCount, dropped, deterministic, answered>>

\* The history counters count 0, 1, "2 or more": the server runs for
\* ever, and the claims only ask whether something happened twice.
Count(n) == IF n >= 2 THEN 2 ELSE n + 1

(* ------------------------------ the cache ----------------------------- *)
\* cachedHeroes.some(cachedHero => cachedHero.id === hero.id)
HasId(cache, id) == \E i \in 1..Len(cache) : cache[i].id = id

\* Variants of MergeHero with a slip: no test at all, a test on the name
\* instead of the id, unshift in place of push, and a replacement of the
\* cached record.
MergeHeroNoCheck(cache, hero) == Append(cache, hero)

MergeHeroByName(cache, hero) ==
  IF ~(\E i \in 1..Len(cache) : cache[i].name = hero.name)
  THEN Append(cache, hero) ELSE cache

MergeHeroUnshift(cache, hero) ==
  IF ~HasId(cache, hero.id) THEN <<hero>> \o cache ELSE cache

MergeHeroLastWins(cache, hero) ==
  IF ~HasId(cache, hero.id) THEN Append(cache, hero)
  ELSE [i \in 1..Len(cache) |-> IF cache[i].id = hero.id THEN hero ELSE cache[i]]

\* The body of the forEach: push the hero unless its id is cached.
MergeHero(cache, hero) ==
  IF ~HasId(cache, hero.id) THEN Append(cache, hero) ELSE cache

RECURSIVE MergeResults(_, _)
\* response.data.results.forEach(...)
MergeResults(cache, results) ==
  IF results = <<>> THEN cache
  ELSE MergeResults(MergeHero(cache, Head(results)), Tail(results))

\* Variant of MergeOutcome whose catch empties the cache.
MergeOutcomeResetOnFail(cache, outcome) ==
  IF outcome.kind = "fail" THEN <<>>
  ELSE IF outcome.kind = "results" /\ Len(outcome.results) > 0
  THEN MergeResults(cache, outcome.results)
  ELSE cache

\* What fetchHeroesByLetter leaves in the cache for an upstream outcome.
MergeOutcome(cache, outcome) ==
  IF outcome.kind = "results" /\ Len(outcome.results) > 0
  THEN MergeResults(cache, outcome.results)
  ELSE cache

RECURSIVE KeepMatching(_, _)
\* Variant of AlignmentMatches that compares the strings as they are.
AlignmentMatchesExact(hero, alignment) ==
  /\ Truthy(hero.alignment)
  /\ hero.alignment = alignment

\* Array.prototype.filter with the alignment test of /api/heroes.
AlignmentMatches(hero, alignment) ==
  /\ Truthy(hero.alignment)
  /\ ToLowerCase(hero.alignment) = ToLowerCase(alignment)

KeepMatching(s, alignment) ==
  IF s = <<>> THEN <<>>
  ELSE IF AlignmentMatches(Head(s), alignment)
       THEN <<Head(s)>> \o KeepMatching(Tail(s), alignment)
       ELSE KeepMatching(Tail(s), alignment)

\* filteredHeroes of /api/heroes.
FilterByAlignment(cache, alignment) ==
  IF Truthy(alignment) THEN KeepMatching(cache, alignment) ELSE cache

RECURSIVE FilterByName(_, _)
RECURSIVE FilterByNamePrefix(_, _)
\* Variant of FilterByName with startsWith in place of includes.
FilterByNamePrefix(cache, heroName) ==
  IF cache = <<>> THEN <<>>
  ELSE LET lower == ToLowerCase(Head(cache).name)
       IN IF Len(heroName) <= Len(lower) /\ SubSeq(lower, 1, Len(heroName)) = heroName
          THEN <<Head(cache)>> \o FilterByNamePrefix(Tail(cache), heroName)
          ELSE FilterByNamePrefix(Tail(cache), heroName)

\* matchingHeroes of /api/superhero; heroName is already lower-cased.
FilterByName(cache, heroName) ==
  IF cache = <<>> THEN <<>>
  ELSE IF Includes(ToLowerCase(Head(cache).name), heroName)
       THEN <<Head(cache)>> \o FilterByName(Tail(cache), heroName)
       ELSE FilterByName(Tail(cache), heroName)

RECURSIVE Drops(_, _)
\* TRUE iff merging the results list drops a hero that differs from the
\* cached record of its id.
Drops(cache, results) ==
  IF results = <<>> THEN FALSE
  ELSE LET hero == Head(results)
       IN IF HasId(cache, hero.id)
          THEN (\E i \in 1..Len(cache) : cache[i].id = hero.id /\ cache[i] # hero)
               \/ Drops(cache, Tail(results))
          ELSE Drops(Append(cache, hero), Tail(results))

RECURSIVE SweepFrom(_, _, _)
\* The loop of initializeHeroCache run without interruption from letter l
\* on, upstream answering letter k with table[k].
SweepFrom(cache, l, table) ==
  IF l > NumLetters THEN cache
  ELSE SweepFrom(MergeOutcome(cache, table[l]), l + 1, table)

(* ------------------------------ Init ---------------------------------- *)
\* The process after start-up: nothing cached, nothing in flight.
InitWith(det) ==
  /\ cachedHeroes = <<>>
  /\ apiKey \in BOOLEAN
  /\ pc = [p \in Slots |-> "idle"]
  /\ req = [p \in Slots |-> NoRequest]
  /\ letter = [p \in Slots |-> 0]
  /\ lastSent = NothingSent
  /\ sweepsStarted = 0
  /\ sweepsCompleted = 0
  /\ fetchCount = [l \in Letters |-> 0]
  /\ dropped = FALSE
  /\ deterministic = det
  /\ answered = [l \in Letters |-> NotAsked]

\* Upstream is free to answer a letter differently each time it is asked.
Init == InitWith(FALSE)

\* Upstream answers a letter the same way every time it is asked.
InitDet == InitWith(TRUE)

(* ------------------------------ /api/heroes --------------------------- *)
\* Variant of ListHeroes that sweeps whatever the cache holds.
ListHeroesAlwaysSweep(p, alignment) ==
  /\ pc[p] = "idle"
  /\ sweepsStarted' = Count(sweepsStarted)
  /\ req' = [req EXCEPT ![p] = [kind |-> "list", arg |-> alignment, id |-> 0]]
  /\ letter' = [letter EXCEPT ![p] = 1]
  /\ fetchCount' = [fetchCount EXCEPT ![1] = Count(@)]
  /\ pc' = [pc EXCEPT ![p] = "awaitLetter"]
  /\ UNCHANGED <<cachedHeroes, apiKey, lastSent, sweepsCompleted, dropped,
                 deterministic, answered>>

\* The handler up to its first await: with an empty cache it calls
\* initializeHeroCache, which issues the fetch of the first letter;
\* otherwise it answers at once from the cache.
ListHeroes(p, alignment) ==
  /\ pc[p] = "idle"
  /\ LET request == [kind |-> "list", arg |-> alignment, id |-> 0]
     IN IF Len(cachedHeroes) = 0
        THEN /\ sweepsStarted' = Count(sweepsStarted)
             /\ req' = [req EXCEPT ![p] = request]
             /\ letter' = [letter EXCEPT ![p] = 1]
             /\ fetchCount' = [fetchCount EXCEPT ![1] = Count(@)]
             /\ pc' = [pc EXCEPT ![p] = "awaitLetter"]
             /\ UNCHANGED lastSent
        ELSE /\ lastSent' = Sent(request, Json(FilterByAlignment(cachedHeroes, alignment)))
             /\ UNCHANGED <<pc, req, letter, sweepsStarted, fetchCount>>
  /\ UNCHANGED <<cachedHeroes, apiKey, sweepsCompleted, dropped, deterministic, answered>>

\* Variant of LetterReturns whose loop steps over every other letter.
LetterReturnsSkip(p, outcome) ==
  /\ pc[p] = "awaitLetter"
  /\ LET l == letter[p]
         cache == MergeOutcome(cachedHeroes, outcome)
     IN /\ deterministic => answered[l] \in {NotAsked, outcome}
        /\ answered' = IF deterministic THEN [answered EXCEPT ![l] = outcome]
                       ELSE answered
        /\ cachedHeroes' = cache
        /\ dropped' = (dropped \/ (outcome.kind = "results"
                                    /\ Drops(cachedHeroes, outcome.results)))
        /\ IF l + 2 <= NumLetters
           THEN /\ letter' = [letter EXCEPT ![p] = l + 2]
                /\ fetchCount' = [fetchCount EXCEPT ![l + 2] = Count(@)]
                /\ UNCHANGED <<pc, req, lastSent, sweepsCompleted>>
           ELSE /\ sweepsCompleted' = Count(sweepsCompleted)
                /\ lastSent' = Sent(req[p], Json(FilterByAlignment(cache, req[p].arg)))
                /\ pc' = [pc EXCEPT ![p] = "idle"]
                /\ req' = [req EXCEPT ![p] = NoRequest]
                /\ letter' = [letter EXCEPT ![p] = 0]
                /\ UNCHANGED fetchCount
  /\ UNCHANGED <<apiKey, sweepsStarted, deterministic>>

\* Variant of LetterReturns that starts the sweep over when a letter fails.
LetterReturnsRestart(p, outcome) ==
  /\ pc[p] = "awaitLetter"
  /\ LET l == letter[p]
         cache == MergeOutcome(cachedHeroes, outcome)
     IN /\ deterministic => answered[l] \in {NotAsked, outcome}
        /\ answered' = IF deterministic THEN [answered EXCEPT ![l] = outcome]
                       ELSE answered
        /\ cachedHeroes' = cache
        /\ dropped' = (dropped \/ (outcome.kind = "results"
                                    /\ Drops(cachedHeroes, outcome.results)))
        /\ IF outcome.kind = "fail"
           THEN /\ letter' = [letter EXCEPT ![p] = 1]
                /\ fetchCount' = [fetchCount EXCEPT ![1] = Count(@)]
                /\ UNCHANGED <<pc, req, lastSent, sweepsCompleted>>
           ELSE IF l < NumLetters
           THEN /\ letter' = [letter EXCEPT ![p] = l + 1]
                /\ fetchCount' = [fetchCount EXCEPT ![l + 1] = Count(@)]
                /\ UNCHANGED <<pc, req, lastSent, sweepsCompleted>>
           ELSE /\ sweepsCompleted' = Count(sweepsCompleted)
                /\ lastSent' = Sent(req[p], Json(FilterByAlignment(cache, req[p].arg)))
                /\ pc' = [pc EXCEPT ![p] = "idle"]
                /\ req' = [req EXCEPT ![p] = NoRequest]
                /\ letter' = [letter EXCEPT ![p] = 0]
                /\ UNCHANGED fetchCount
  /\ UNCHANGED <<apiKey, sweepsStarted, deterministic>>

\* Variant of LetterReturns without the catch in fetchHeroesByLetter: a
\* failed fetch ends the sweep and the handler answers 500.
LetterReturnsAbort(p, outcome) ==
  /\ pc[p] = "awaitLetter"
  /\ LET l == letter[p]
         cache == MergeOutcome(cachedHeroes, outcome)
         last == l = NumLetters \/ outcome.kind = "fail"
     IN /\ deterministic => answered[l] \in {NotAsked, outcome}
        /\ answered' = IF deterministic THEN [answered EXCEPT ![l] = outcome]
                       ELSE answered
        /\ cachedHeroes' = cache
        /\ dropped' = (dropped \/ (outcome.kind = "results"
                                    /\ Drops(cachedHeroes, outcome.results)))
        /\ IF ~last
           THEN /\ letter' = [letter EXCEPT ![p] = l + 1]
                /\ fetchCount' = [fetchCount EXCEPT ![l + 1] = Count(@)]
                /\ UNCHANGED <<pc, req, lastSent, sweepsCompleted>>
           ELSE /\ sweepsCompleted' = IF outcome.kind = "fail" THEN sweepsCompleted
                                      ELSE Count(sweepsCompleted)
                /\ lastSent' = Sent(req[p],
                                    IF outcome.kind = "fail"
                                    THEN StatusJson(500, "Error fetching heroes.")
                                    ELSE Json(FilterByAlignment(cache, req[p].arg)))
                /\ pc' = [pc EXCEPT ![p] = "idle"]
                /\ req' = [req EXCEPT ![p] = NoRequest]
                /\ letter' = [letter EXCEPT ![p] = 0]
                /\ UNCHANGED fetchCount
  /\ UNCHANGED <<apiKey, sweepsStarted, deterministic>>

\* The fetch of a letter returns: fetchHeroesByLetter merges the results
\* (or swallows the failure), and the loop of initializeHeroCache issues
\* the next fetch; after the last letter the handler filters and answers.
LetterReturns(p, outcome) ==
  /\ pc[p] = "awaitLetter"
  /\ LET l == letter[p]
         cache == MergeOutcome(cachedHeroes, outcome)
     IN /\ deterministic => answered[l] \in {NotAsked, outcome}
        /\ answered' = IF deterministic THEN [answered EXCEPT ![l] = outcome]
                       ELSE answered
        /\ cachedHeroes' = cache
        /\ dropped' = (dropped \/ (outcome.kind = "results"
                                    /\ Drops(cachedHeroes, outcome.results)))
        /\ IF l < NumLetters
           THEN /\ letter' = [letter EXCEPT ![p] = l + 1]
                /\ fetchCount' = [fetchCount EXCEPT ![l + 1] = Count(@)]
                /\ UNCHANGED <<pc, req, lastSent, sweepsCompleted>>
           ELSE /\ sweepsCompleted' = Count(sweepsCompleted)
                /\ lastSent' = Sent(req[p], Json(FilterByAlignment(cache, req[p].arg)))
                /\ pc' = [pc EXCEPT ![p] = "idle"]
                /\ req' = [req EXCEPT ![p] = NoRequest]
                /\ letter' = [letter EXCEPT ![p] = 0]
                /\ UNCHANGED fetchCount
  /\ UNCHANGED <<apiKey, sweepsStarted, deterministic>>

(* ------------------------------ /api/superhero ------------------------ *)
\* req.query.name?.toLowerCase()
HeroName(name) == IF name = Undefined THEN Undefined ELSE ToLowerCase(name)

\* Variant of SearchByName without the test of the name.
SearchByNameNoGuard(p, name) ==
  /\ pc[p] = "idle"
  /\ LET heroName == HeroName(name)
         matchingHeroes == FilterByName(cachedHeroes, heroName)
     IN lastSent' = Sent([kind |-> "search", arg |-> name, id |-> 0],
                 IF Len(matchingHeroes) > 0 THEN Json(matchingHeroes)
                 ELSE StatusJson(404, "No superhero found with name"))
  /\ UNCHANGED <<cachedHeroes, apiKey, pc, req, letter, sweepsStarted,
                 sweepsCompleted, fetchCount, dropped, deterministic, answered>>

\* The whole handler: it never awaits.
SearchByName(p, name) ==
  /\ pc[p] = "idle"
  /\ LET heroName == HeroName(name)
         matchingHeroes == FilterByName(cachedHeroes, heroName)
     IN lastSent' = Sent([kind |-> "search", arg |-> name, id |-> 0],
                 IF ~Truthy(heroName) THEN StatusJson(400, "Please provide a superhero name.")
                 ELSE IF Len(matchingHeroes) > 0 THEN Json(matchingHeroes)
                 ELSE StatusJson(404, "No superhero found with name"))
  /\ UNCHANGED <<cachedHeroes, apiKey, pc, req, letter, sweepsStarted,
                 sweepsCompleted, fetchCount, dropped, deterministic, answered>>

(* ------------------------------ /api/superhero/:id -------------------- *)
\* Variant of GetById that answers from the cache when it holds the id.
GetByIdFromCache(p, id) ==
  /\ pc[p] = "idle"
  /\ LET request == [kind |-> "byId", arg |-> <<>>, id |-> id]
     IN IF ~apiKey
        THEN /\ lastSent' = Sent(request, StatusJson(500, "API key is missing"))
             /\ UNCHANGED <<pc, req>>
        ELSE IF HasId(cachedHeroes, id)
        THEN /\ lastSent' = Sent(request,
                    Json(SelectSeq(cachedHeroes, LAMBDA h : h.id = id)))
             /\ UNCHANGED <<pc, req>>
        ELSE /\ pc' = [pc EXCEPT ![p] = "awaitId"]
             /\ req' = [req EXCEPT ![p] = request]
             /\ UNCHANGED lastSent
  /\ UNCHANGED <<cachedHeroes, apiKey, letter, sweepsStarted, sweepsCompleted,
                 fetchCount, dropped, deterministic, answered>>

\* The handler up to its await: without an API key it answers 500,
\* otherwise it issues the upstream call.
GetById(p, id) ==
  /\ pc[p] = "idle"
  /\ LET request == [kind |-> "byId", arg |-> <<>>, id |-> id]
     IN IF ~apiKey
        THEN /\ lastSent' = Sent(request, StatusJson(500, "API key is missing"))
             /\ UNCHANGED <<pc, req>>
        ELSE /\ pc' = [pc EXCEPT ![p] = "awaitId"]
             /\ req' = [req EXCEPT ![p] = request]
             /\ UNCHANGED lastSent
  /\ UNCHANGED <<cachedHeroes, apiKey, letter, sweepsStarted, sweepsCompleted,
                 fetchCount, dropped, deterministic, answered>>

\* Variant of IdReturns whose catch answers as for an unknown id.
IdReturnsSwallow(p, outcome) ==
  /\ pc[p] = "awaitId"
  /\ lastSent' = Sent(req[p],
       CASE outcome.kind = "success" -> Json(outcome.hero)
         [] OTHER -> StatusJson(404, "No superhero found with ID"))
  /\ pc' = [pc EXCEPT ![p] = "idle"]
  /\ req' = [req EXCEPT ![p] = NoRequest]
  /\ UNCHANGED <<cachedHeroes, apiKey, letter, sweepsStarted, sweepsCompleted,
                 fetchCount, dropped, deterministic, answered>>

\* The upstream call returns and the handler answers.
IdReturns(p, outcome) ==
  /\ pc[p] = "awaitId"
  /\ lastSent' = Sent(req[p],
       CASE outcome.kind = "success" -> Json(outcome.hero)
         [] outcome.kind = "fail" -> StatusJson(500, "Error fetching superhero data.")
         [] OTHER -> StatusJson(404, "No superhero found with ID"))
  /\ pc' = [pc EXCEPT ![p] = "idle"]
  /\ req' = [req EXCEPT ![p] = NoRequest]
  /\ UNCHANGED <<cachedHeroes, apiKey, letter, sweepsStarted, sweepsCompleted,
                 fetchCount, dropped, deterministic, answered>>

(* ------------------------------ specification ------------------------- *)
Next ==
  \/ \E p \in Slots, alignment \in Alignments : ListHeroes(p, alignment)
  \/ \E p \in Slots, outcome \in LetterOutcomes : LetterReturns(p, outcome)
  \/ \E p \in Slots, name \in Names : SearchByName(p, name)
  \/ \E p \in Slots, id \in QueryIds : GetById(p, id)
  \/ \E p \in Slots : \E outcome \in IdOutcomes(req[p].id) : IdReturns(p, outcome)

Spec == Init /\ [][Next]_vars

\* The sweeps alone, against an upstream that repeats itself.
NextDet ==
  \/ \E p \in Slots, alignment \in Alignments : ListHeroes(p, alignment)
  \/ \E p \in Slots, outcome \in LetterOutcomes : LetterReturns(p, outcome)

SpecDet == InitDet /\ [][NextDet]_vars

\* Every fetch of a letter returns in the end, with a result or a failure.
UpstreamReturns ==
  \A p \in Slots :
    WF_vars(\E outcome \in LetterOutcomes : LetterReturns(p, outcome))

\* The sweeps alone, upstream free to answer a letter differently each
\* time, every fetch returning in the end.
SpecLive == Init /\ [][NextDet]_vars /\ UpstreamReturns

\* The query handlers alone, over a cache that a sweep has left.
InitQuery ==
  /\ cachedHeroes \in CachesUpTo(MaxCatalog)
  /\ apiKey \in BOOLEAN
  /\ pc = [p \in Slots |-> "idle"]
  /\ req = [p \in Slots |-> NoRequest]
  /\ letter = [p \in Slots |-> 0]
  /\ lastSent = NothingSent
  /\ sweepsStarted = (IF cachedHeroes = <<>> THEN 0 ELSE 1)
  /\ sweepsCompleted = sweepsStarted
  /\ fetchCount = [l \in Letters |-> sweepsStarted]
  /\ dropped = FALSE
  /\ deterministic = FALSE
  /\ answered = [l \in Letters |-> NotAsked]

NextQuery ==
  \/ \E p \in Slots, alignment \in QueryAlignments : ListHeroes(p, alignment)
  \/ \E p \in Slots, name \in QueryNames : SearchByName(p, name)

SpecQuery == InitQuery /\ [][NextQuery]_vars

(* ------------------------------ properties ---------------------------- *)
\* The slots whose request is inside initializeHeroCache.
Sweeping == {p \in Slots : pc[p] = "awaitLetter"}

\* The records of a sequence, as a set.
Range(s) == {s[i] : i \in 1..Len(s)}

\* C1: at most one sweep is ever started: requests that arrive while the
\* cache is empty and no sweep has finished start one sweep between them,
\* and no letter is fetched more than once.
C1_AtMostOneSweep ==
  sweepsCompleted = 0 =>
    /\ sweepsStarted <= 1
    /\ \A l \in Letters : fetchCount[l] <= 1

\* C2: when two sweeps were started and every sweep has returned, the
\* cache is, record for record and in order, what one uninterrupted sweep
\* over the letters builds from the answers upstream gave.
C2_TwoSweepsAsOne ==
  (sweepsStarted = 2 /\ Sweeping = {}) =>
    cachedHeroes = SweepFrom(<<>>, 1, answered)

\* Two sweeps were started, both returned, and they left two records.
C2_Witness ==
  /\ sweepsStarted = 2
  /\ sweepsCompleted = 2
  /\ Sweeping = {}
  /\ Len(cachedHeroes) = 2

\* C3: no two entries of the cache have the same id.
C3_NoDuplicateIds ==
  \A i, j \in 1..Len(cachedHeroes) :
    cachedHeroes[i].id = cachedHeroes[j].id => i = j

\* Two sweeps ran, a hero was offered under a cached id, and the cache
\* holds two records.
C3_Witness ==
  /\ dropped
  /\ sweepsStarted = 2
  /\ Len(cachedHeroes) = 2

\* C4: a step never changes the record the cache holds for an id: a
\* record merged under a cached id is dropped, the cached one stays.
C4_FirstSeenWins ==
  [][\A h \in Range(cachedHeroes) :
       /\ h \in Range(cachedHeroes')
       /\ \A g \in Range(cachedHeroes') : g.id = h.id => g = h]_vars

\* HeroA is cached and a different hero of the same id has been dropped.
C4_Witness ==
  /\ dropped
  /\ Len(cachedHeroes) >= 1
  /\ cachedHeroes[1] = HeroA

\* The heroes of the results lists of the letters that succeeded.
Returned(table) ==
  UNION {Range(table[l].results) : l \in {k \in Letters : table[k].kind = "results"}}

\* C5: a sweep ends only with the return of its last letter, whatever
\* letters failed; the cache then holds one record for each id the
\* letters that succeeded returned and nothing else, and the request that
\* ran the sweep is answered 200.
C5_PartialFailureResilience ==
  [][\A p \in Slots :
       (pc[p] = "awaitLetter" /\ pc'[p] # "awaitLetter") =>
         /\ letter[p] = NumLetters
         /\ \A l \in Letters : fetchCount[l] >= 1 /\ answered'[l] # NotAsked
         /\ Range(cachedHeroes') \subseteq Returned(answered')
         /\ {h.id : h \in Range(cachedHeroes')} = {h.id : h \in Returned(answered')}
         /\ Cardinality({h.id : h \in Range(cachedHeroes')}) = Len(cachedHeroes')
         /\ lastSent'.req = req[p]
         /\ lastSent'.res.status = 200]_vars

\* A sweep returned in which a letter failed and another delivered the
\* records now cached, and the request was answered 200.
C5_Witness ==
  /\ sweepsCompleted >= 1
  /\ \E l \in Letters : answered[l].kind = "fail"
  /\ \E l \in Letters : answered[l].kind = "results" /\ Len(answered[l].results) > 0
  /\ Len(cachedHeroes) > 0
  /\ lastSent.req.kind = "list"
  /\ lastSent.res.status = 200

\* C6: once a sweep has returned, no request starts another sweep.
C6_ReadyIsTerminal ==
  [][sweepsCompleted >= 1 =>
       \A p \in Slots : pc[p] = "idle" => pc'[p] # "awaitLetter"]_vars

\* C7: a search with a non-empty name is answered only after a sweep has
\* run to its end.
C7_SearchTriggersSweep ==
  (lastSent.req.kind = "search" /\ Truthy(lastSent.req.arg)) =>
    sweepsCompleted >= 1

\* C8: no list or search response is sent while a sweep is in progress.
C8_NoAnswerWhilePopulating ==
  [][(/\ lastSent' # lastSent
      /\ lastSent'.req.kind \in {"list", "search"}
      /\ lastSent'.res.status # 400) => Sweeping' = {}]_vars

\* C9: a search without a name, or with the empty name, is answered 400
\* with no hero in the response, and the step changes neither the cache,
\* nor any request in flight, nor the count of upstream calls.
C9_EmptyNameRejected ==
  [][(/\ lastSent' # lastSent
      /\ lastSent'.req.kind = "search"
      /\ ~Truthy(lastSent'.req.arg)) =>
        /\ lastSent'.res.status = 400
        /\ lastSent'.res.heroes = <<>>
        /\ UNCHANGED <<cachedHeroes, pc, req, letter, sweepsStarted,
                       sweepsCompleted, fetchCount>>]_vars

\* A search with the empty name was answered 400 while a sweep was in
\* progress over a cache that already holds a record.
C9_Witness ==
  /\ lastSent.req.kind = "search"
  /\ lastSent.req.arg = <<>>
  /\ lastSent.res.status = 400
  /\ Sweeping # {}
  /\ Len(cachedHeroes) > 0

\* What no step of the by-id handler changes: the cache and its sweeps.
CacheUntouched ==
  UNCHANGED <<cachedHeroes, letter, sweepsStarted, sweepsCompleted, fetchCount>>

\* C10 as stated: every by-id request issues an upstream call and leaves
\* the cache and its sweeps alone.
C10_AlwaysUpstream ==
  [][\A p \in Slots, id \in QueryIds :
       GetById(p, id) => (pc'[p] = "awaitId" /\ CacheUntouched)]_vars

\* C10 as amended: with an API key every by-id request issues an
\* upstream call, also for an id the cache holds; without one it is
\* answered 500 and no call is issued; neither the request nor the
\* return of its call changes the cache or its sweeps.
C10_UpstreamIfApiKey ==
  [][\A p \in Slots :
       /\ \A id \in QueryIds :
            GetById(p, id) =>
              /\ apiKey => (pc'[p] = "awaitId" /\ req'[p].id = id)
              /\ ~apiKey => (pc'[p] = "idle" /\ lastSent'.res.status = 500)
              /\ CacheUntouched
       /\ \A outcome \in IdOutcomes(req[p].id) :
            IdReturns(p, outcome) => CacheUntouched]_vars

\* A by-id call is in flight for an id the cache holds, after a sweep has
\* returned and with no sweep in progress.
C10_Witness ==
  /\ sweepsCompleted >= 1
  /\ Sweeping = {}
  /\ \E p \in Slots : pc[p] = "awaitId" /\ HasId(cachedHeroes, req[p].id)

\* The entries of a cache at the positions in I, in cache order.
Pick(cache, I) ==
  [k \in 1..Cardinality(I) |->
     cache[CHOOSE i \in I : Cardinality({j \in I : j < i}) = k - 1]]

\* The positions whose alignment is present, non-empty and equal to the
\* requested one once both are lower-cased.
Aligned(cache, alignment) ==
  {i \in 1..Len(cache) :
     /\ cache[i].alignment \notin {Undefined, <<>>}
     /\ ToLowerCase(cache[i].alignment) = ToLowerCase(alignment)}

\* C11: a list response carries the whole cache when the alignment is
\* omitted or empty, and otherwise exactly the entries, in cache order,
\* whose alignment is non-empty and equals the requested one when both
\* are lower-cased.
C11_FilterCorrect ==
  lastSent.req.kind = "list" =>
    lastSent.res =
      Json(IF lastSent.req.arg \in {Undefined, <<>>} THEN cachedHeroes
           ELSE Pick(cachedHeroes, Aligned(cachedHeroes, lastSent.req.arg)))

\* A request for "G" was answered with two heroes, one stored as "g" and
\* one as "G", from a cache that also holds a hero without alignment.
C11_Witness ==
  /\ lastSent.req.kind = "list"
  /\ lastSent.req.arg = <<"G">>
  /\ Len(lastSent.res.heroes) = 2
  /\ \E i \in 1..Len(cachedHeroes) : cachedHeroes[i].alignment = Undefined

\* t occurs in s at some offset.
Contains(s, t) ==
  \E k \in 0..Len(s) :
    /\ k + Len(t) <= Len(s)
    /\ \A j \in 1..Len(t) : s[k + j] = t[j]

\* The positions whose lower-cased name contains the lower-cased text.
Named(cache, text) ==
  {i \in 1..Len(cache) : Contains(ToLowerCase(cache[i].name), ToLowerCase(text))}

\* C12: a search with a non-empty name is answered 404 if no entry's
\* lower-cased name contains the lower-cased text, and otherwise with
\* exactly the entries whose name does.
C12_SearchCorrect ==
  (lastSent.req.kind = "search" /\ Truthy(lastSent.req.arg)) =>
    LET I == Named(cachedHeroes, lastSent.req.arg)
    IN IF I = {}
       THEN lastSent.res.status = 404 /\ lastSent.res.heroes = <<>>
       ELSE lastSent.res = Json(Pick(cachedHeroes, I))

\* A search for "B" found "aB", where the text is not at the start, and
\* left out an entry of the cache.
C12_Witness ==
  /\ lastSent.req.kind = "search"
  /\ lastSent.req.arg = <<"B">>
  /\ lastSent.res.status = 200
  /\ \E i \in 1..Len(lastSent.res.heroes) : lastSent.res.heroes[i] = HeroB
  /\ Len(lastSent.res.heroes) < Len(cachedHeroes)

\* C13: when every letter fetch made so far has failed, a request that
\* ran a sweep is answered only with 200 and the empty list.
C13_TotalFailureIsEmptyList ==
  [][\A p \in Slots :
       (/\ pc[p] = "awaitLetter"
        /\ pc'[p] # "awaitLetter"
        /\ \A l \in Letters : answered'[l].kind \in {"fail", "notasked"}) =>
         lastSent' = Sent(req[p], Json(<<>>))]_vars

\* A sweep returned after every letter had failed, and its request got
\* the empty list.
C13_Witness ==
  /\ sweepsCompleted >= 1
  /\ \A l \in Letters : answered[l].kind = "fail"
  /\ lastSent.req.kind = "list"
  /\ lastSent.res = Json(<<>>)

\* C14: when the upstream call of a by-id request returns, the response
\* is the upstream record (200) exactly if upstream answered "success",
\* 404 if it answered otherwise, and an error (500) if the call failed.
C14_GetByIdOutcomes ==
  [][\A p \in Slots : \A outcome \in IdOutcomes(req[p].id) :
       IdReturns(p, outcome) =>
         /\ lastSent'.req = req[p]
         /\ (lastSent'.res.status = 200) <=> (outcome.kind = "success")
         /\ outcome.kind = "success" => lastSent'.res.heroes = outcome.hero
         /\ outcome.kind \in {"error", "nodata"} => lastSent'.res.status = 404
         /\ outcome.kind = "fail" => lastSent'.res.status = 500]_vars

\* A by-id request was answered with upstream's record for an id the
\* cache does not hold.
C14_Witness ==
  /\ lastSent.req.kind = "byId"
  /\ lastSent.res = Json(<<HeroB>>)
  /\ ~HasId(cachedHeroes, HeroB.id)

\* C15: in every step the cache before is a prefix of the cache after,
\* and the cache changes only in a step in which a letter of a sweep
\* returns.
C15_AppendOnly ==
  [][/\ Len(cachedHeroes) <= Len(cachedHeroes')
     /\ SubSeq(cachedHeroes', 1, Len(cachedHeroes)) = cachedHeroes
     /\ cachedHeroes' # cachedHeroes =>
          \E p \in Slots :
            /\ pc[p] = "awaitLetter"
            /\ (letter'[p] = letter[p] + 1 \/ pc'[p] = "idle")]_vars

\* The cache has grown to two records, and a search and a by-id request
\* have been served since the first was stored.
C15_Witness ==
  /\ Len(cachedHeroes) = 2
  /\ lastSent.req.kind = "search"
  /\ \E p \in Slots : pc[p] = "awaitId"

\* C16: a sweep fetches the letters in order, one at a time: its letter
\* moves from none to the first when the sweep starts, by one when the
\* fetch in flight returns and its results are merged, and from the
\* last to none when the sweep ends; a letter is fetched only in the
\* step in which a sweep moves to it.
C16_SweepOrder ==
  [][/\ \A p \in Slots :
          /\ (pc'[p] = "awaitLetter") <=> (letter'[p] \in Letters)
          /\ letter'[p] # letter[p] =>
               \/ pc[p] = "idle" /\ letter'[p] = 1
               \/ /\ pc[p] = "awaitLetter"
                  /\ letter'[p] = letter[p] + 1
                  /\ \E outcome \in LetterOutcomes :
                       cachedHeroes' = MergeOutcome(cachedHeroes, outcome)
               \/ /\ pc[p] = "awaitLetter"
                  /\ letter[p] = NumLetters
                  /\ letter'[p] = 0
     /\ \A l \in Letters :
          fetchCount'[l] # fetchCount[l] =>
            \E p \in Slots : letter'[p] = l /\ letter[p] # l]_vars

\* One sweep awaits its last letter while another awaits the first.
C16_Witness ==
  \E p, q \in Slots : letter[p] = NumLetters /\ letter[q] = 1

\* C17: if every upstream call returns in the end, every request that is
\* running a sweep is answered in the end.
C17_SweepsFinish ==
  \A p \in Slots : (pc[p] = "awaitLetter") ~> (pc[p] = "idle")

\* Two sweeps and nothing else are in flight, and a letter has failed to
\* add anything: the cache is still empty after the first letter.
C17_Witness ==
  /\ Sweeping = Slots
  /\ \E p \in Slots : letter[p] > 1
  /\ cachedHeroes = <<>>

\* C18: a request that finds a record in the cache starts no sweep; and
\* once the cache holds a record and no sweep is in progress, no step
\* starts a sweep, fetches a letter or changes the cache.
C18_SweepOnlyFromEmpty ==
  [][Len(cachedHeroes) > 0 =>
       /\ \A p \in Slots : pc[p] = "idle" => pc'[p] # "awaitLetter"
       /\ Sweeping = {} =>
            /\ Sweeping' = {}
            /\ cachedHeroes' = cachedHeroes
            /\ fetchCount' = fetchCount
            /\ sweepsStarted' = sweepsStarted]_vars

\* A list request was answered from a cache that holds a record while
\* the only sweep was still in progress: the request started none.
C18_Witness ==
  /\ Len(cachedHeroes) > 0
  /\ lastSent.req.kind = "list"
  /\ sweepsStarted = 1
  /\ sweepsCompleted = 0

TypeOK ==
  /\ \A i \in 1..Len(cachedHeroes) : cachedHeroes[i] \in HeroPool
  /\ \A p \in Slots : pc[p] \in {"idle", "awaitLetter", "awaitId"}
  /\ \A p \in Slots : letter[p] \in 0..NumLetters
=============================================================================
